---- MODULE Spec2Model ----
(***************************************************************************)
(* Model of cvias/vision_language/vllm_client.py: VisionLanguageModelVLLM. *)
(* One object (self), callers that invoke detect / infer_with_image, and   *)
(* the remote chat-completion server as the environment.  A call blocks at *)
(* client.chat.completions.create; the server's answer (or a transport     *)
(* failure) resumes it.                                                    *)
(*                                                                         *)
(* Numbers: a float is modelled as an exact decimal [n, e] = n / 10^e.     *)
(* A log-probability is modelled as k, meaning -k * ln 2, so that          *)
(* math.exp gives 2^-k = 5^k / 10^k exactly.                               *)
(***************************************************************************)
EXTENDS Integers, Sequences, FiniteSets, TLC

\* ---------------------------------------------------------------- bounds
\* number of tokens the server generates in one answer (at most max_tokens)
MaxGen == 3
\* log-probabilities range over 0, -ln 2, ..., -MaxHalvings * ln 2
MaxHalvings == 4
\* per-call transport clients that may be created in one behaviour
MaxClients == 2
\* callers that may be inside the object at the same time
NumCallers == 2

\* ------------------------------------------------------- program constants
\* max_tokens=5 of the chat-completion request
max_tokens == 5
\* number_of_detection=1 of the DetectedObject
number_of_detection == 1

Callers == 1..NumCallers

None == "None"

\* ---------------------------------------------------------------- decimals
RECURSIVE Pow10(_)
Pow10(k) == IF k = 0 THEN 1 ELSE 10 * Pow10(k - 1)

RECURSIVE Pow5(_)
Pow5(k) == IF k = 0 THEN 1 ELSE 5 * Pow5(k - 1)

Dec(n, e) == [n |-> n, e |-> e]

\* canonical form: no trailing zero in the fraction
RECURSIVE Norm(_)
Norm(a) == IF a.e > 0 /\ a.n % 10 = 0 THEN Norm(Dec(a.n \div 10, a.e - 1)) ELSE a

DecLeq(a, b) ==
    LET x == Norm(a)
        y == Norm(b)
    IN  x.n * Pow10(y.e) <= y.n * Pow10(x.e)

DecLt(a, b) == ~ DecLeq(b, a)

Zero == Dec(0, 0)
One == Dec(1, 0)

\* min(a, 1.0)
MinOne(a) == IF a.n >= Pow10(a.e) THEN One ELSE a

\* x * 1 / 10
Scale10(a) == Dec(a.n, a.e + 1)

\* round(a, 3): nearest multiple of 0.001, an exact tie goes to the even one
Round3(a) ==
    IF a.e <= 3 THEN Norm(a)
    ELSE LET d == Pow10(a.e - 3)
             q == a.n \div d
             r == a.n % d
         IN  IF 2 * r > d THEN Norm(Dec(q + 1, 3))
             ELSE IF 2 * r < d THEN Norm(Dec(q, 3))
             ELSE IF q % 2 = 0 THEN Norm(Dec(q, 3))
             ELSE Norm(Dec(q + 1, 3))

\* math.exp(logprob) for logprob = -k * ln 2
Exp(k) == Dec(Pow5(k), k)

\* ------------------------------------------------------------------ strings
Digits == {"0", "1", "2", "3", "4", "5", "6", "7", "8", "9"}

DigitVal(ch) ==
    CASE ch = "0" -> 0 [] ch = "1" -> 1 [] ch = "2" -> 2 [] ch = "3" -> 3
      [] ch = "4" -> 4 [] ch = "5" -> 5 [] ch = "6" -> 6 [] ch = "7" -> 7
      [] ch = "8" -> 8 [] ch = "9" -> 9

\* str.lower() on one character
LowerCh(ch) ==
    CASE ch = "Y" -> "y" [] ch = "E" -> "e" [] ch = "S" -> "s"
      [] ch = "N" -> "n" [] ch = "O" -> "o" [] OTHER -> ch

Lower(s) == [i \in 1..Len(s) |-> LowerCh(s[i])]

\* needle in s
Contains(s, needle) ==
    \E i \in 1..(Len(s) - Len(needle) + 1) :
        \A j \in 1..Len(needle) : s[i + j - 1] = needle[j]

\* end of the maximal run of digits that starts at position i
RECURSIVE DigitRunEnd(_, _)
DigitRunEnd(s, i) ==
    IF i + 1 <= Len(s) /\ s[i + 1] \in Digits THEN DigitRunEnd(s, i + 1) ELSE i

\* variant: the pattern without its fractional group, \d+
ReSearch_IntegerOnly(s) ==
    IF \A i \in 1..Len(s) : s[i] \notin Digits THEN None
    ELSE LET st == CHOOSE i \in 1..Len(s) :
                       /\ s[i] \in Digits
                       /\ \A j \in 1..(i - 1) : s[j] \notin Digits
         IN  SubSeq(s, st, DigitRunEnd(s, st))

\* re.search(r"\d+(\.\d+)?", s): None or the matched substring
ReSearch(s) ==
    IF \A i \in 1..Len(s) : s[i] \notin Digits THEN None
    ELSE LET st == CHOOSE i \in 1..Len(s) :
                       /\ s[i] \in Digits
                       /\ \A j \in 1..(i - 1) : s[j] \notin Digits
             ie == DigitRunEnd(s, st)
             en == IF ie + 2 <= Len(s) /\ s[ie + 1] = "." /\ s[ie + 2] \in Digits
                   THEN DigitRunEnd(s, ie + 2)
                   ELSE ie
         IN  SubSeq(s, st, en)

RECURSIVE DigitsToInt(_)
DigitsToInt(s) ==
    IF Len(s) = 0 THEN 0
    ELSE 10 * DigitsToInt(SubSeq(s, 1, Len(s) - 1)) + DigitVal(s[Len(s)])

\* float(g) for g matched by the pattern above
Float(g) ==
    IF \E i \in 1..Len(g) : g[i] = "."
    THEN LET p == CHOOSE i \in 1..Len(g) : g[i] = "."
         IN  Dec(DigitsToInt(SubSeq(g, 1, p - 1) \o SubSeq(g, p + 1, Len(g))),
                 Len(g) - p)
    ELSE Dec(DigitsToInt(g), 0)

\* ------------------------------------------------------------------- inputs
Yes == <<"Y", "e", "s">>
No == <<"N", "o">>

\* tokens the served model may generate
Vocab == {Yes, <<"y", "e", "s">>, No, <<"7">>, <<"0">>, <<".">>, <<".", "7", "7">>}

GenLimit == IF MaxGen < max_tokens THEN MaxGen ELSE max_tokens

\* the generated token sequences: at least one token, at most max_tokens
Generations(limit) == UNION {[1..n -> Vocab] : n \in 1..limit}

RECURSIVE Join(_)
Join(g) == IF Len(g) = 0 THEN <<>> ELSE g[1] \o Join(Tail(g))

\* chat_response for generated tokens g whose first token has logprob -k ln 2:
\* choices[0].message.content and choices[0].logprobs.content[0]
ChatResponse(g, k) == [content |-> Join(g), token |-> g[1], logprob |-> k]

NoResponse == [content |-> <<>>, token |-> <<>>, logprob |-> 0]

DefaultThreshold == Dec(1, 1)
Thresholds == {Zero, DefaultThreshold, Dec(25, 2), Dec(7, 1)}
Descriptions == {"cat", "dog"}
Images == {None, "img"}
ImagePaths == {None, "", "a.png"}

Endpoint == "http://localhost:8000/v1"
ApiKey == "empty"
Model == "OpenGVLab/InternVL2-8B"

\* attributes of an openai.OpenAI client object (the SDK's resources)
OpenAIAttrs == {"chat", "completions", "embeddings", "files", "images", "audio",
                "moderations", "models", "fine_tuning", "beta", "batches",
                "uploads", "api_key", "base_url"}

\* -------------------------------------------------------------------- state
VARIABLES
    self,      \* the VisionLanguageModelVLLM object's attributes
    created,   \* number of OpenAI(...) clients constructed so far
    calls      \* per caller: the activation of detect / infer_with_image

vars == <<self, created, calls>>

\* client identities: 0 is None, i > 0 is the i-th OpenAI(...) constructed
NoClient == 0

\* __init__
Construct(endpoint, api_key, model, parallel_inference) ==
    [client |-> IF ~ parallel_inference THEN 1 ELSE NoClient,
     parallel_inference |-> parallel_inference,
     model_name |-> model,
     model |-> model,
     endpoint |-> endpoint,
     api_key |-> api_key]

NoInferred == [response |-> <<>>, confidence |-> Zero]

NoObject == [name |-> None, model_name |-> None, confidence |-> Zero,
             probability |-> Zero, number_of_detection |-> 0,
             is_detected |-> FALSE]

IdleCall == [pc |-> "idle", op |-> None, image |-> None, image_path |-> None,
             scene_description |-> None, threshold |-> Zero,
             confidence_as_token_probability |-> FALSE,
             client |-> NoClient, made |-> 0, requests |-> 0,
             chat_response |-> NoResponse, inferred |-> NoInferred,
             obj |-> NoObject, error |-> None]

Init ==
    /\ \E parallel_inference \in BOOLEAN :
        /\ self = Construct(Endpoint, ApiKey, Model, parallel_inference)
        /\ created = IF parallel_inference THEN 0 ELSE 1
    /\ calls = [c \in Callers |-> IdleCall]

\* ------------------------------------------------------- infer_with_image
\* variant: the client is chosen before the arguments are asserted
SelectClient_ClientFirst(obj, count, image, image_path) ==
    IF ~ obj.parallel_inference /\ "stream" \notin OpenAIAttrs
    THEN [ok |-> FALSE, error |-> "AttributeError", client |-> NoClient, made |-> 0]
    ELSE LET client == IF obj.parallel_inference THEN count + 1 ELSE obj.client
             made == IF obj.parallel_inference THEN 1 ELSE 0
         IN  IF ~ (image # None \/ image_path # None)
             THEN [ok |-> FALSE, error |-> "AssertionError", client |-> client,
                   made |-> made]
             ELSE IF image_path = "" /\ image = None
             THEN [ok |-> FALSE, error |-> "FromArrayError", client |-> client,
                   made |-> made]
             ELSE [ok |-> TRUE, error |-> None, client |-> client, made |-> made]

\* The part of infer_with_image that runs before the request is sent:
\* the assertion, the image conversion and the choice of the client.
\* ok: the request is sent through client; otherwise error is raised.
SelectClient(obj, count, image, image_path) ==
    IF ~ (image # None \/ image_path # None)
    THEN [ok |-> FALSE, error |-> "AssertionError", client |-> NoClient, made |-> 0]
    ELSE IF image_path = "" /\ image = None
    THEN [ok |-> FALSE, error |-> "FromArrayError", client |-> NoClient, made |-> 0]
    ELSE IF obj.parallel_inference
    THEN [ok |-> TRUE, error |-> None, client |-> count + 1, made |-> 1]
    ELSE IF "stream" \in OpenAIAttrs
    THEN [ok |-> TRUE, error |-> None, client |-> obj.client, made |-> 0]
    ELSE [ok |-> FALSE, error |-> "AttributeError", client |-> NoClient, made |-> 0]

\* confidence of the first generated token
TokenConfidence(token, logprob) ==
    IF token \in {Yes, No} THEN Exp(logprob) ELSE Zero

\* the (response, confidence) pair infer_with_image returns
InferReturn(chat_response) ==
    [response |-> chat_response.content,
     confidence |-> TokenConfidence(chat_response.token, chat_response.logprob)]

\* ------------------------------------------------------------------ detect
\* variant: "yes" in response, without lower()
ModeA_CaseSensitive(response, confidence, threshold) ==
    IF Contains(response, <<"y", "e", "s">>)
    THEN IF DecLeq(confidence, threshold)
         THEN [confidence |-> Zero, probability |-> Zero, detected |-> FALSE]
         ELSE [confidence |-> confidence, probability |-> confidence,
               detected |-> TRUE]
    ELSE [confidence |-> confidence, probability |-> confidence,
          detected |-> FALSE]

\* variant: confidence < threshold
ModeA_StrictLess(response, confidence, threshold) ==
    IF Contains(Lower(response), <<"y", "e", "s">>)
    THEN IF DecLt(confidence, threshold)
         THEN [confidence |-> Zero, probability |-> Zero, detected |-> FALSE]
         ELSE [confidence |-> confidence, probability |-> confidence,
               detected |-> TRUE]
    ELSE [confidence |-> confidence, probability |-> confidence,
          detected |-> FALSE]

\* variant: probability is taken before the threshold test clamps confidence
ModeA_StaleProbability(response, confidence, threshold) ==
    IF Contains(Lower(response), <<"y", "e", "s">>)
    THEN IF DecLeq(confidence, threshold)
         THEN [confidence |-> Zero, probability |-> confidence, detected |-> FALSE]
         ELSE [confidence |-> confidence, probability |-> confidence,
               detected |-> TRUE]
    ELSE [confidence |-> confidence, probability |-> confidence,
          detected |-> FALSE]

\* confidence_as_token_probability branch
ModeA(response, confidence, threshold) ==
    IF Contains(Lower(response), <<"y", "e", "s">>)
    THEN IF DecLeq(confidence, threshold)
         THEN [confidence |-> Zero, probability |-> Zero, detected |-> FALSE]
         ELSE [confidence |-> confidence, probability |-> confidence,
               detected |-> TRUE]
    ELSE [confidence |-> confidence, probability |-> confidence,
          detected |-> FALSE]

\* variant: the 0.10 default is used as the final confidence, not scaled
ModeB_DefaultAfterScale(confidence_str, threshold) ==
    LET float_search == ReSearch(confidence_str)
        confidence == IF float_search # None
                      THEN MinOne(Scale10(Float(float_search)))
                      ELSE Dec(10, 2)
    IN  [confidence |-> confidence, probability |-> confidence,
         detected |-> ~ DecLeq(confidence, threshold)]

\* variant: confidence < threshold
ModeB_StrictLess(confidence_str, threshold) ==
    LET float_search == ReSearch(confidence_str)
        parsed == IF float_search # None THEN Float(float_search) ELSE Dec(10, 2)
        confidence == MinOne(Scale10(parsed))
    IN  [confidence |-> confidence, probability |-> confidence,
         detected |-> ~ DecLt(confidence, threshold)]

\* confidence-scale branch
ModeB(confidence_str, threshold) ==
    LET float_search == ReSearch(confidence_str)
        parsed == IF float_search # None THEN Float(float_search) ELSE Dec(10, 2)
        confidence == MinOne(Scale10(parsed))
    IN  [confidence |-> confidence, probability |-> confidence,
         detected |-> ~ DecLeq(confidence, threshold)]

\* variant: the fields are stored without round(..., 3)
DetectedObject_Unrounded(obj, scene_description, scored) ==
    [name |-> scene_description,
     model_name |-> obj.model_name,
     confidence |-> Norm(scored.confidence),
     probability |-> Norm(scored.probability),
     number_of_detection |-> number_of_detection,
     is_detected |-> scored.detected]

DetectedObject(obj, scene_description, scored) ==
    [name |-> scene_description,
     model_name |-> obj.model_name,
     confidence |-> Round3(scored.confidence),
     probability |-> Round3(scored.probability),
     number_of_detection |-> number_of_detection,
     is_detected |-> scored.detected]

\* what detect returns once infer_with_image has returned
DetectReturn(obj, call, inferred) ==
    DetectedObject(obj, call.scene_description,
        IF call.confidence_as_token_probability
        THEN ModeA(inferred.response, inferred.confidence, call.threshold)
        ELSE ModeB(inferred.response, call.threshold))

\* an exception leaving infer_with_image inside detect: the confidence-scale
\* branch catches SyntaxError only, and its handler reads confidence_str,
\* which is unbound when the call raised
Propagate(call, error) ==
    IF call.op = "detect" /\ ~ call.confidence_as_token_probability
       /\ error = "SyntaxError"
    THEN "UnboundLocalError"
    ELSE error

\* ----------------------------------------------------------------- actions
\* the activation of a call once it has run until its request is sent or an
\* error is raised
Entered(pre, op, image, image_path, scene_description, threshold, catp) ==
    LET call == [IdleCall EXCEPT !.op = op, !.image = image,
                     !.image_path = image_path,
                     !.scene_description = scene_description,
                     !.threshold = threshold,
                     !.confidence_as_token_probability = catp,
                     !.client = pre.client, !.made = pre.made]
    IN  IF pre.ok
        THEN [call EXCEPT !.pc = "awaiting", !.requests = 1]
        ELSE [call EXCEPT !.pc = "raised", !.error = Propagate(call, pre.error)]

detect(c, thresholds, descriptions) ==
    /\ calls[c].pc = "idle"
    /\ \E frame_img \in Images, scene_description \in descriptions,
          threshold \in thresholds, catp \in BOOLEAN :
        LET pre == SelectClient(self, created, frame_img, None)
        IN  /\ created + pre.made <= MaxClients
            /\ created' = created + pre.made
            /\ calls' = [calls EXCEPT ![c] =
                   Entered(pre, "detect", frame_img, None, scene_description,
                           threshold, catp)]
    /\ UNCHANGED self

infer_with_image(c) ==
    /\ calls[c].pc = "idle"
    /\ \E image \in Images, image_path \in ImagePaths :
        LET pre == SelectClient(self, created, image, image_path)
        IN  /\ created + pre.made <= MaxClients
            /\ created' = created + pre.made
            /\ calls' = [calls EXCEPT ![c] =
                   Entered(pre, "infer_with_image", image, image_path, None,
                           Zero, FALSE)]
    /\ UNCHANGED self

\* the server answers the request of call c
Respond(c, limit) ==
    /\ calls[c].pc = "awaiting"
    /\ \E g \in Generations(limit), k \in 0..MaxHalvings :
        LET chat_response == ChatResponse(g, k)
            inferred == InferReturn(chat_response)
        IN  calls' = [calls EXCEPT ![c] =
                [@ EXCEPT !.pc = "returned",
                          !.chat_response = chat_response,
                          !.inferred = inferred,
                          !.obj = IF calls[c].op = "detect"
                                  THEN DetectReturn(self, calls[c], inferred)
                                  ELSE NoObject]]
    /\ UNCHANGED <<self, created>>

\* client.chat.completions.create raises (network / HTTP failure)
TransportError(c) ==
    /\ calls[c].pc = "awaiting"
    /\ calls' = [calls EXCEPT ![c] =
           [@ EXCEPT !.pc = "raised",
                     !.error = Propagate(calls[c], "TransportError")]]
    /\ UNCHANGED <<self, created>>

\* the caller takes the result or the exception; the activation ends
Return(c) ==
    /\ calls[c].pc \in {"returned", "raised"}
    /\ calls' = [calls EXCEPT ![c] = IdleCall]
    /\ UNCHANGED <<self, created>>

\* one caller at a time, every input and every answer
Next ==
    \E c \in {1} :
        \/ detect(c, Thresholds, Descriptions)
        \/ infer_with_image(c)
        \/ Respond(c, GenLimit)
        \/ TransportError(c)
        \/ Return(c)

Spec == Init /\ [][Next]_vars

\* callers inside the object at the same time, one-token answers
NextConc ==
    \E c \in Callers :
        \/ detect(c, {DefaultThreshold}, {"cat"})
        \/ infer_with_image(c)
        \/ Respond(c, 1)
        \/ TransportError(c)
        \/ Return(c)

SpecConc == Init /\ [][NextConc]_vars

TypeOK ==
    /\ self.parallel_inference \in BOOLEAN
    /\ created \in 0..MaxClients
    /\ \A c \in Callers : calls[c].pc \in {"idle", "awaiting", "returned", "raised"}

\* ------------------------------------------------------------------ claims
Active(c) == calls[c].pc # "idle"

\* detect has returned a DetectedObject to caller c
Detected(c) == calls[c].pc = "returned" /\ calls[c].op = "detect"

DetectedA(c) == Detected(c) /\ calls[c].confidence_as_token_probability

DetectedB(c) == Detected(c) /\ ~ calls[c].confidence_as_token_probability

\* the answer's text contains "yes", whatever the case of its letters
SaysYes(c) == Contains(Lower(calls[c].chat_response.content), <<"y", "e", "s">>)

\* exp(p) of the answer's first token
TokenProb(c) == Exp(calls[c].chat_response.logprob)

ExactToken(c) == calls[c].chat_response.token \in {Yes, No}

\* C1 as stated: in Mode A, whenever the text contains "yes" and the first
\* token's probability exp(p) exceeds the threshold, the result is detected
\* with confidence round(exp(p), 3), whatever the first token's string is.
C1_AnyToken ==
    \A c \in Callers :
        (DetectedA(c) /\ SaysYes(c) /\ DecLt(calls[c].threshold, TokenProb(c)))
            => /\ calls[c].obj.is_detected
               /\ calls[c].obj.confidence = Round3(TokenProb(c))

\* C1 amended: the same, for answers whose first token is exactly "Yes" or
\* "No"; any text that contains "yes" case-insensitively counts.
C1_ExactToken ==
    \A c \in Callers :
        (DetectedA(c) /\ SaysYes(c) /\ ExactToken(c)
                      /\ DecLt(calls[c].threshold, TokenProb(c)))
            => /\ calls[c].obj.is_detected
               /\ calls[c].obj.confidence = Round3(TokenProb(c))

\* C1 witness: a detection from a capitalised "Yes" whose confidence had to be
\* rounded (exp(p) = 0.0625, stored as 0.062)
C1_Witness ==
    \E c \in Callers :
        /\ DetectedA(c) /\ ExactToken(c)
        /\ ~ Contains(calls[c].chat_response.content, <<"y", "e", "s">>)
        /\ SaysYes(c)
        /\ calls[c].obj.is_detected
        /\ calls[c].obj.confidence = Dec(62, 3)

\* C2 as stated: in Mode A, exp(p) <= threshold gives not detected with
\* confidence 0.0, whether or not the text contains "yes".
C2_AnyText ==
    \A c \in Callers :
        (DetectedA(c) /\ DecLeq(TokenProb(c), calls[c].threshold))
            => /\ ~ calls[c].obj.is_detected
               /\ calls[c].obj.confidence = Zero

\* C2 amended: in Mode A, exp(p) <= threshold gives not detected; the
\* confidence is 0.0 when the text contains "yes" or the first token is not
\* exactly "Yes"/"No", and round(exp(p), 3) when the text has no "yes" and the
\* first token is exactly "Yes" or "No".
C2_YesText ==
    \A c \in Callers :
        (DetectedA(c) /\ DecLeq(TokenProb(c), calls[c].threshold))
            => /\ ~ calls[c].obj.is_detected
               /\ (SaysYes(c) \/ ~ ExactToken(c))
                      => calls[c].obj.confidence = Zero
               /\ (~ SaysYes(c) /\ ExactToken(c))
                      => calls[c].obj.confidence = Round3(TokenProb(c))

\* C2 witness: the text says yes, the token is exact and its probability
\* equals the threshold: clamped to 0.0, not detected
C2_Witness ==
    \E c \in Callers :
        /\ DetectedA(c) /\ SaysYes(c) /\ ExactToken(c)
        /\ TokenProb(c) = Dec(25, 2) /\ calls[c].threshold = Dec(25, 2)
        /\ ~ calls[c].obj.is_detected
        /\ calls[c].obj.confidence = Zero

InUnitInterval(x) == DecLeq(Zero, x) /\ DecLeq(x, One)

\* x is a multiple of 0.001
ThreeDecimals(x) == Norm(x).e <= 3

\* C3: every DetectedObject returned by detect has confidence and probability
\* in [0.0, 1.0], each a multiple of 0.001.
C3_RangeAndRounding ==
    \A c \in Callers :
        Detected(c)
            => /\ InUnitInterval(calls[c].obj.confidence)
               /\ InUnitInterval(calls[c].obj.probability)
               /\ ThreeDecimals(calls[c].obj.confidence)
               /\ ThreeDecimals(calls[c].obj.probability)

\* C3 witness: a token probability with more than three decimals (0.0625)
\* was returned as 0.062
C3_Witness ==
    \E c \in Callers :
        /\ DetectedA(c) /\ ExactToken(c)
        /\ ~ SaysYes(c)
        /\ calls[c].chat_response.logprob = 4
        /\ calls[c].obj.confidence = Dec(62, 3)

\* t is digits, or digits "." digits
IsNumber(t) ==
    /\ Len(t) > 0
    /\ \/ \A i \in 1..Len(t) : t[i] \in Digits
       \/ \E p \in 2..(Len(t) - 1) :
            /\ t[p] = "."
            /\ \A i \in 1..Len(t) : i # p => t[i] \in Digits

HasNumber(s) == \E i \in 1..Len(s) : s[i] \in Digits

\* the first decimal number in s: the leftmost, and the longest from there
FirstNumber(s) ==
    LET i == CHOOSE i \in 1..Len(s) :
                 /\ s[i] \in Digits
                 /\ \A j \in 1..(i - 1) : s[j] \notin Digits
        j == CHOOSE j \in i..Len(s) :
                 /\ IsNumber(SubSeq(s, i, j))
                 /\ \A k \in (j + 1)..Len(s) : ~ IsNumber(SubSeq(s, i, k))
    IN  SubSeq(s, i, j)

\* min(v / 10, 1.0) rounded to three decimals
Scaled(v) == Round3(IF DecLeq(One, Scale10(v)) THEN One ELSE Scale10(v))

\* C4: in Mode B the returned confidence and probability are
\* round(min(v / 10, 1.0), 3) for v the first decimal number in the text; the
\* text "7.77No" gives 0.777, detected under the default threshold 0.1.
C4_FirstNumberScaled ==
    \A c \in Callers :
        (DetectedB(c) /\ HasNumber(calls[c].chat_response.content))
            => LET text == calls[c].chat_response.content
                   want == Scaled(Float(FirstNumber(text)))
               IN  /\ calls[c].obj.confidence = want
                   /\ calls[c].obj.probability = want
                   /\ text = <<"7", ".", "7", "7", "N", "o">>
                          => /\ calls[c].obj.confidence = Dec(777, 3)
                             /\ calls[c].threshold = DefaultThreshold
                                    => calls[c].obj.is_detected

\* C4 witness: "7.77No" under the default threshold
C4_Witness ==
    \E c \in Callers :
        /\ DetectedB(c)
        /\ calls[c].chat_response.content = <<"7", ".", "7", "7", "N", "o">>
        /\ calls[c].threshold = DefaultThreshold
        /\ calls[c].obj.confidence = Dec(777, 3)
        /\ calls[c].obj.is_detected

\* C5: in Mode B a text without any digit does not fail the call: detect
\* returns confidence 0.01 (the 0.10 default, then divided by 10), and under
\* the default threshold 0.1 the result is not detected.
C5_DefaultBeforeScale ==
    \A c \in Callers :
        /\ (DetectedB(c) /\ ~ HasNumber(calls[c].chat_response.content))
               => /\ calls[c].obj.confidence = Dec(1, 2)
                  /\ calls[c].threshold = DefaultThreshold
                         => ~ calls[c].obj.is_detected
        /\ calls[c].pc = "raised" => calls[c].chat_response = NoResponse

\* C5 witness: the answer "No" in Mode B under the default threshold
C5_Witness ==
    \E c \in Callers :
        /\ DetectedB(c)
        /\ calls[c].chat_response.content = No
        /\ calls[c].threshold = DefaultThreshold
        /\ calls[c].obj.confidence = Dec(1, 2)
        /\ ~ calls[c].obj.is_detected

\* the scaled and clamped, not yet rounded, confidence of Mode B
FinalB(c) ==
    LET text == calls[c].chat_response.content
        v == IF HasNumber(text) THEN Float(FirstNumber(text)) ELSE Dec(1, 1)
    IN  IF DecLeq(One, Scale10(v)) THEN One ELSE Scale10(v)

\* C6: in Mode B is_detected holds exactly when the final confidence is
\* strictly greater than the threshold, and a result that is not detected
\* keeps its computed confidence and probability.
C6_StrictThreshold ==
    \A c \in Callers :
        DetectedB(c)
            => /\ calls[c].obj.is_detected <=> DecLt(calls[c].threshold, FinalB(c))
               /\ ~ calls[c].obj.is_detected
                      => /\ calls[c].obj.confidence = Round3(FinalB(c))
                         /\ calls[c].obj.probability = Round3(FinalB(c))

\* C6 witness: confidence 0.7 under threshold 0.7: not detected, 0.7 kept
C6_Witness ==
    \E c \in Callers :
        /\ DetectedB(c)
        /\ calls[c].threshold = Dec(7, 1)
        /\ calls[c].obj.confidence = Dec(7, 1)
        /\ ~ calls[c].obj.is_detected

\* C7: a call with neither image nor image_path (detect with frame_img =
\* None included) ends in the assertion's error, having created no client,
\* used no client and sent no request.
C7_AssertBeforeNetwork ==
    \A c \in Callers :
        (Active(c) /\ calls[c].image = None /\ calls[c].image_path = None)
            => /\ calls[c].pc = "raised"
               /\ calls[c].error = "AssertionError"
               /\ calls[c].made = 0
               /\ calls[c].client = NoClient
               /\ calls[c].requests = 0

\* C7 witness: detect(frame_img=None) on a parallel_inference object, after an
\* earlier call did create a client
C7_Witness ==
    \E c \in Callers :
        /\ self.parallel_inference
        /\ created > 0
        /\ calls[c].op = "detect"
        /\ calls[c].image = None
        /\ calls[c].error = "AssertionError"

\* C8: every detect call with a valid image performs exactly one outbound
\* request, in both scoring modes and both concurrency modes; a transport
\* error ends the call with that error, without a DetectedObject.
C8_ExactlyOneRequest ==
    \A c \in Callers :
        (Active(c) /\ calls[c].op = "detect" /\ calls[c].image # None)
            => /\ calls[c].requests = 1
               /\ calls[c].pc = "raised"
                      => /\ calls[c].error = "TransportError"
                         /\ calls[c].obj = NoObject

\* the request of call c went out through client calls[c].client
Sent(c) == Active(c) /\ calls[c].requests > 0

\* the call passed the argument checks of infer_with_image
ValidArgs(c) ==
    /\ Active(c)
    /\ calls[c].image # None \/ calls[c].image_path \notin {None, ""}

\* C9: with parallel_inference every call creates its own client, no two
\* calls in flight share one and self.client stays unset; without it no
\* client is created after construction and every call sends through the
\* constructor's client; the object's configuration never changes.
C9_ClientLifetime ==
    /\ self.parallel_inference
           => /\ self.client = NoClient
              /\ \A c \in Callers :
                    ValidArgs(c) => calls[c].made = 1 /\ Sent(c)
              /\ \A c, d \in Callers :
                    (c # d /\ Sent(c) /\ Sent(d)) => calls[c].client # calls[d].client
    /\ ~ self.parallel_inference
           => /\ created = 1
              /\ self.client = 1
              /\ \A c \in Callers :
                    ValidArgs(c) => Sent(c) /\ calls[c].client = self.client
    /\ self = Construct(Endpoint, ApiKey, Model, self.parallel_inference)

\* C10: every returned DetectedObject has probability = confidence and
\* number_of_detection = 1; in Mode A a text without "yes" records the token
\* confidence as probability, not zeroed.
C10_ProbabilityIsConfidence ==
    \A c \in Callers :
        Detected(c)
            => /\ calls[c].obj.probability = calls[c].obj.confidence
               /\ calls[c].obj.number_of_detection = 1
               /\ (DetectedA(c) /\ ~ SaysYes(c) /\ ExactToken(c))
                      => /\ calls[c].obj.probability = Round3(TokenProb(c))
                         /\ ~ calls[c].obj.is_detected

\* C10 witness: Mode A answer "No" with probability 0.5 under threshold 0.7:
\* not detected, probability and confidence both 0.5
C10_Witness ==
    \E c \in Callers :
        /\ DetectedA(c) /\ ~ SaysYes(c)
        /\ calls[c].chat_response.token = No
        /\ calls[c].threshold = Dec(7, 1)
        /\ calls[c].obj.probability = Dec(5, 1)
        /\ calls[c].obj.confidence = Dec(5, 1)

====
